---- MODULE Spec2Model ----
(***************************************************************************)
(* Model of outlook_web.py: the collector loop of get_calendar_events,     *)
(* parse_event, post_to_url and the output stage of main.                  *)
(*                                                                         *)
(* Python str values are TLA+ strings; TLC evaluates Len, SubSeq and \o on *)
(* them, so split, strip, lower, substring tests and the regular           *)
(* expressions are computed character by character.                        *)
(***************************************************************************)
EXTENDS Integers, Sequences, FiniteSets, TLC

(***************************************************************************)
(* Characters and str methods                                              *)
(***************************************************************************)
Upper == "ABCDEFGHIJKLMNOPQRSTUVWXYZ"
LowerCase == "abcdefghijklmnopqrstuvwxyz"
DigitChars == "0123456789"

Char(s, i) == SubSeq(s, i, i)

CharsOf(s) == { Char(s, i) : i \in 1..Len(s) }

\* \d, \w and \s of the re module, over the ASCII alphabet of the inputs
Digit == CharsOf(DigitChars)
Word == CharsOf(Upper) \cup CharsOf(LowerCase) \cup Digit \cup {"_"}
Space == {" ", "\t", "\n", "\r"}

\* c.lower() for one character
LowerChar(c) ==
    IF c \in CharsOf(Upper)
    THEN Char(LowerCase, CHOOSE i \in 1..Len(Upper) : Char(Upper, i) = c)
    ELSE c

RECURSIVE StrLower(_)
\* str.lower()
StrLower(s) ==
    IF s = "" THEN "" ELSE LowerChar(Head(s)) \o StrLower(Tail(s))

\* s.startswith(p)
StartsWith(s, p) == Len(s) >= Len(p) /\ SubSeq(s, 1, Len(p)) = p

\* sub in s
Contains(s, sub) ==
    \E i \in 1..(Len(s) - Len(sub) + 1) : SubSeq(s, i, i + Len(sub) - 1) = sub

RECURSIVE LStrip(_)
LStrip(s) == IF s # "" /\ Head(s) \in Space THEN LStrip(Tail(s)) ELSE s

RECURSIVE RStrip(_)
RStrip(s) ==
    IF s # "" /\ Char(s, Len(s)) \in Space
    THEN RStrip(SubSeq(s, 1, Len(s) - 1))
    ELSE s

\* str.strip()
Strip(s) == RStrip(LStrip(s))

RECURSIVE SplitFrom(_, _, _)
\* the pieces of s from position i on, cur being the piece under construction
SplitFrom(s, i, cur) ==
    IF i > Len(s) THEN <<cur>>
    ELSE IF Char(s, i) = "," THEN <<cur>> \o SplitFrom(s, i + 1, "")
    ELSE SplitFrom(s, i + 1, cur \o Char(s, i))

\* raw.split(',')
Split(s) == SplitFrom(s, 1, "")

\* [p.strip() for p in raw.split(',')]
Parts(raw) ==
    LET pieces == Split(raw) IN [k \in 1..Len(pieces) |-> Strip(pieces[k])]

(***************************************************************************)
(* The re module, for patterns that are a concatenation of quantified      *)
(* character classes and alternations of literals.  Matching is greedy     *)
(* with backtracking, alternatives are tried left to right.                *)
(***************************************************************************)
\* a character class repeated lo..hi times (hi < 0: no upper limit)
Cls(S, lo, hi) == [alts |-> <<>>, cls |-> S, min |-> lo, max |-> hi]
\* one of the literals of a, tried in order
Alt(a) == [alts |-> a, cls |-> {}, min |-> 0, max |-> 0]

NoMatch == [ok |-> FALSE, start |-> 0, ends |-> <<>>]

RECURSIVE Run(_, _, _, _)
\* how many characters of S follow each other from pos on, limit at most
Run(s, pos, S, limit) ==
    IF limit = 0 \/ pos > Len(s) \/ Char(s, pos) \notin S
    THEN 0
    ELSE 1 + Run(s, pos + 1, S, limit - 1)

RECURSIVE MatchFrom(_, _, _, _, _)
RECURSIVE TryCount(_, _, _, _, _, _)
RECURSIVE TryAlt(_, _, _, _, _, _)
\* items k.. of the pattern matched at pos; ends[j] is the position after
\* the j-th of them
MatchFrom(items, k, s, pos, start) ==
    IF k > Len(items) THEN [ok |-> TRUE, start |-> start, ends |-> <<>>]
    ELSE IF Len(items[k].alts) > 0 THEN TryAlt(items, k, s, pos, start, 1)
    ELSE TryCount(items, k, s, pos, start,
                  Run(s, pos, items[k].cls,
                      IF items[k].max < 0 THEN Len(s) ELSE items[k].max))

TryCount(items, k, s, pos, start, c) ==
    IF c < items[k].min THEN NoMatch
    ELSE LET rest == MatchFrom(items, k + 1, s, pos + c, start)
         IN  IF rest.ok
             THEN [rest EXCEPT !.ends = <<pos + c>> \o @]
             ELSE TryCount(items, k, s, pos, start, c - 1)

TryAlt(items, k, s, pos, start, a) ==
    IF a > Len(items[k].alts) THEN NoMatch
    ELSE LET lit == items[k].alts[a]
             fits == pos + Len(lit) - 1 <= Len(s)
                     /\ SubSeq(s, pos, pos + Len(lit) - 1) = lit
             rest == MatchFrom(items, k + 1, s, pos + Len(lit), start)
         IN  IF fits /\ rest.ok
             THEN [rest EXCEPT !.ends = <<pos + Len(lit)>> \o @]
             ELSE TryAlt(items, k, s, pos, start, a + 1)

\* re.match(pattern, s)
ReMatch(items, s) == MatchFrom(items, 1, s, 1, 1)

RECURSIVE SearchFrom(_, _, _)
SearchFrom(items, s, start) ==
    IF start > Len(s) + 1 THEN NoMatch
    ELSE LET m == MatchFrom(items, 1, s, start, start)
         IN  IF m.ok THEN m ELSE SearchFrom(items, s, start + 1)

\* re.search(pattern, s)
ReSearch(items, s) == SearchFrom(items, s, 1)

\* the text matched by items from..to of the pattern
Group(s, m, from, to) ==
    SubSeq(s, IF from = 1 THEN m.start ELSE m.ends[from - 1], m.ends[to] - 1)

\* (Monday|Tuesday|Wednesday|Thursday|Friday|Saturday|Sunday)
WeekdayRe ==
    <<Alt(<<"Monday", "Tuesday", "Wednesday", "Thursday", "Friday",
            "Saturday", "Sunday">>)>>

\* (\w+day),?\s+(\w+)\s+(\d+),?\s+(\d{4})
DateRe ==
    <<Cls(Word, 1, -1), Alt(<<"day">>), Cls({","}, 0, 1), Cls(Space, 1, -1),
      Cls(Word, 1, -1), Cls(Space, 1, -1), Cls(Digit, 1, -1),
      Cls({","}, 0, 1), Cls(Space, 1, -1), Cls(Digit, 4, 4)>>

\* (\d{1,2}):(\d{2})\s*(AM|PM)\s+to\s+(\d{1,2}):(\d{2})\s*(AM|PM)
TimeRe ==
    <<Cls(Digit, 1, 2), Alt(<<":">>), Cls(Digit, 2, 2), Cls(Space, 0, -1),
      Alt(<<"AM", "PM">>), Cls(Space, 1, -1), Alt(<<"to">>),
      Cls(Space, 1, -1),
      Cls(Digit, 1, 2), Alt(<<":">>), Cls(Digit, 2, 2), Cls(Space, 0, -1),
      Alt(<<"AM", "PM">>)>>

(***************************************************************************)
(* int() and datetime()                                                    *)
(***************************************************************************)
\* the largest value of a C int, the type of datetime()'s arguments
CIntMax == 2147483647

RECURSIVE StripZeros(_)
StripZeros(ds) ==
    IF Len(ds) > 1 /\ Head(ds) = "0" THEN StripZeros(Tail(ds)) ELSE ds

DigitVal(c) == (CHOOSE i \in 1..Len(DigitChars) : Char(DigitChars, i) = c) - 1

RECURSIVE DigitsLeq(_, _)
\* a <= b for digit strings of the same length
DigitsLeq(a, b) ==
    IF a = "" THEN TRUE
    ELSE IF DigitVal(Head(a)) # DigitVal(Head(b))
         THEN DigitVal(Head(a)) < DigitVal(Head(b))
         ELSE DigitsLeq(Tail(a), Tail(b))

RECURSIVE DigitsValue(_, _)
DigitsValue(ds, acc) ==
    IF ds = "" THEN acc
    ELSE DigitsValue(Tail(ds), acc * 10 + DigitVal(Head(ds)))

\* int(ds) for a string of digits: Python ints are unbounded, so a value
\* above CIntMax is kept as big, without its magnitude
PyInt(ds) ==
    LET z == StripZeros(ds)
        fits == Len(z) < 10 \/ (Len(z) = 10 /\ DigitsLeq(z, "2147483647"))
    IN  IF fits THEN [big |-> FALSE, n |-> DigitsValue(z, 0)]
        ELSE [big |-> TRUE, n |-> CIntMax]

IsLeap(year) == year % 4 = 0 /\ (year % 100 # 0 \/ year % 400 = 0)

DaysInMonth(year, month) ==
    IF month = 2 THEN (IF IsLeap(year) THEN 29 ELSE 28)
    ELSE IF month \in {4, 6, 9, 11} THEN 30 ELSE 31

NoDatetime == [year |-> 0, month |-> 0, day |-> 0, hour |-> 0, minute |-> 0]

\* datetime(year, month, day, hour, minute): the arguments are converted to
\* C ints first (OverflowError), then range-checked (ValueError)
Datetime(year, month, day, hour, minute) ==
    IF \E a \in {year, month, day, hour, minute} : a.big
    THEN [exc |-> "OverflowError", dt |-> NoDatetime]
    ELSE IF /\ year.n \in 1..9999
            /\ month.n \in 1..12
            /\ day.n \in 1..DaysInMonth(year.n, month.n)
            /\ hour.n \in 0..23
            /\ minute.n \in 0..59
    THEN [exc |-> "none",
          dt |-> [year |-> year.n, month |-> month.n, day |-> day.n,
                  hour |-> hour.n, minute |-> minute.n]]
    ELSE [exc |-> "ValueError", dt |-> NoDatetime]

Small(n) == [big |-> FALSE, n |-> n]

\* a < b on datetime values
DtLess(a, b) ==
    LET ka == <<a.year, a.month, a.day, a.hour, a.minute>>
        kb == <<b.year, b.month, b.day, b.hour, b.minute>>
    IN  \E i \in 1..5 : ka[i] < kb[i] /\ \A j \in 1..(i - 1) : ka[j] = kb[j]

DtLeq(a, b) == a = b \/ DtLess(a, b)

(***************************************************************************)
(* parse_event                                                             *)
(***************************************************************************)
\* Optional[str]: <<>> is None, <<s>> is the string s
Truthy(o) == o # <<>> /\ o[1] # ""

NoEvent ==
    [kind |-> "None", exc |-> "none", title |-> "", start |-> NoDatetime,
     end |-> NoDatetime, all_day |-> FALSE, raw |-> ""]

Raise(e) == [NoEvent EXCEPT !.kind = "raise", !.exc = e]

Event(title, start, end, all_day, raw) ==
    [kind |-> "event", exc |-> "none", title |-> title, start |-> start,
     end |-> end, all_day |-> all_day, raw |-> raw]

\* a test that knows only the first of the two prefixes
IsSentinel_OnlyCalendar(title) == StartsWith(title, "calendar view")

\* title.startswith('calendar view') or title.startswith('current time')
IsSentinel(title) ==
    StartsWith(title, "calendar view") \/ StartsWith(title, "current time")

\* ' to ' in part and ('AM' in part or 'PM' in part)
IsTimeRange(part) ==
    Contains(part, " to ") /\ (Contains(part, "AM") \/ Contains(part, "PM"))

\* 'all day' in part.lower()
IsAllDay(part) == Contains(StrLower(part), "all day")

\* re.match(r'(Monday|...|Sunday)', part)
IsWeekday(part) == ReMatch(WeekdayRe, part).ok

\* the date string rebuilt from the weekday segment parts[k] and the one or
\* two segments after it
DatePart(parts, k) ==
    IF k + 2 <= Len(parts)
    THEN parts[k] \o ", " \o parts[k + 1] \o ", " \o parts[k + 2]
    ELSE IF k + 1 <= Len(parts)
    THEN parts[k] \o ", " \o parts[k + 1]
    ELSE parts[k]

RECURSIVE Scan_NoBreak(_, _, _)
\* a loop that keeps the first date marker and goes on to the last segment
Scan_NoBreak(parts, k, st) ==
    IF k > Len(parts) THEN st
    ELSE IF IsTimeRange(parts[k])
    THEN Scan_NoBreak(parts, k + 1, [st EXCEPT !.time_part = <<parts[k]>>])
    ELSE IF IsAllDay(parts[k])
    THEN Scan_NoBreak(parts, k + 1, [st EXCEPT !.all_day = TRUE])
    ELSE IF IsWeekday(parts[k]) /\ st.date_part = <<>>
    THEN Scan_NoBreak(parts, k + 1,
                      [st EXCEPT !.date_part = <<DatePart(parts, k)>>])
    ELSE Scan_NoBreak(parts, k + 1, st)

RECURSIVE Scan(_, _, _)
\* the loop over parts[1:], from segment k on (parts[k] is Python's parts[k-1])
Scan(parts, k, st) ==
    IF k > Len(parts) THEN st
    ELSE IF IsTimeRange(parts[k])
    THEN Scan(parts, k + 1, [st EXCEPT !.time_part = <<parts[k]>>])
    ELSE IF IsAllDay(parts[k])
    THEN Scan(parts, k + 1, [st EXCEPT !.all_day = TRUE])
    ELSE IF IsWeekday(parts[k])
    THEN [st EXCEPT !.date_part = <<DatePart(parts, k)>>]
    ELSE Scan(parts, k + 1, st)

ScanStart == [time_part |-> <<>>, date_part |-> <<>>, all_day |-> FALSE]

\* month_map.get(month_name, 1)
MonthMap(name) ==
    CASE name = "January" -> 1
      [] name = "February" -> 2
      [] name = "March" -> 3
      [] name = "April" -> 4
      [] name = "May" -> 5
      [] name = "June" -> 6
      [] name = "July" -> 7
      [] name = "August" -> 8
      [] name = "September" -> 9
      [] name = "October" -> 10
      [] name = "November" -> 11
      [] name = "December" -> 12
      [] OTHER -> 1

\* a conversion that adds 12 to every PM hour, 12 included
To24_PmAddsTwelve(hour, ampm) ==
    IF ampm = "PM" THEN Small(hour.n + 12)
    ELSE IF ampm = "AM" /\ hour.n = 12 THEN Small(0)
    ELSE hour

\* the 12-hour to 24-hour conversion of one end of the range
To24(hour, ampm) ==
    IF ampm = "PM" /\ hour.n # 12 THEN Small(hour.n + 12)
    ELSE IF ampm = "AM" /\ hour.n = 12 THEN Small(0)
    ELSE hour

\* a construction that moves an end earlier than the start to the next day
BuildEvent_EndRolls(title, startR, endR, all_day, raw) ==
    IF startR.exc # "none" THEN Raise(startR.exc)
    ELSE IF endR.exc # "none" THEN Raise(endR.exc)
    ELSE IF DtLess(endR.dt, startR.dt)
    THEN Event(title, startR.dt, [endR.dt EXCEPT !.day = @ + 1], all_day, raw)
    ELSE Event(title, startR.dt, endR.dt, all_day, raw)

\* start_dt and end_dt built one after the other, the first exception wins
BuildEvent(title, startR, endR, all_day, raw) ==
    IF startR.exc # "none" THEN Raise(startR.exc)
    ELSE IF endR.exc # "none" THEN Raise(endR.exc)
    ELSE Event(title, startR.dt, endR.dt, all_day, raw)

\* start_dt of an all-day event
AllDayStart(year, month, day) ==
    Datetime(year, month, day, Small(0), Small(0))

\* an end that repeats the start instead of closing the day
AllDayEnd_AsStart(year, month, day) ==
    Datetime(year, month, day, Small(0), Small(0))

\* end_dt of an all-day event
AllDayEnd(year, month, day) ==
    Datetime(year, month, day, Small(23), Small(59))

\* the body of the try block
TryBody(title, sc, raw) ==
    LET dm == ReSearch(DateRe, sc.date_part[1])
    IN  IF ~dm.ok THEN NoEvent
        ELSE
        LET date_part == sc.date_part[1]
            month_name == Group(date_part, dm, 5, 5)
            day == PyInt(Group(date_part, dm, 7, 7))
            year == PyInt(Group(date_part, dm, 10, 10))
            month == Small(MonthMap(month_name))
        IN  IF sc.all_day
            THEN BuildEvent(title,
                            AllDayStart(year, month, day),
                            AllDayEnd(year, month, day),
                            sc.all_day, raw)
            ELSE IF Truthy(sc.time_part)
            THEN LET time_part == sc.time_part[1]
                     tm == ReMatch(TimeRe, time_part)
                 IN  IF ~tm.ok THEN NoEvent
                     ELSE
                     LET start_hour == To24(PyInt(Group(time_part, tm, 1, 1)),
                                            Group(time_part, tm, 5, 5))
                         start_min == PyInt(Group(time_part, tm, 3, 3))
                         end_hour == To24(PyInt(Group(time_part, tm, 9, 9)),
                                          Group(time_part, tm, 13, 13))
                         end_min == PyInt(Group(time_part, tm, 11, 11))
                     IN  BuildEvent(title,
                             Datetime(year, month, day, start_hour, start_min),
                             Datetime(year, month, day, end_hour, end_min),
                             sc.all_day, raw)
            ELSE NoEvent

\* except (ValueError, AttributeError): return None
Except(r) ==
    IF r.kind = "raise" /\ r.exc \in {"ValueError", "AttributeError"}
    THEN NoEvent
    ELSE r

parse_event(raw) ==
    LET parts == Parts(raw)
    IN  IF Len(parts) < 3 THEN NoEvent
        ELSE IF IsSentinel(parts[1]) THEN NoEvent
        ELSE LET sc == Scan(parts, 2, ScanStart)
             IN  IF ~Truthy(sc.date_part) THEN NoEvent
                 ELSE Except(TryBody(parts[1], sc, raw))

(***************************************************************************)
(* Formatting of datetime values                                           *)
(***************************************************************************)
RECURSIVE NatStr(_)
\* str(n) for n >= 0
NatStr(n) ==
    IF n < 10 THEN Char(DigitChars, n + 1)
    ELSE NatStr(n \div 10) \o Char(DigitChars, (n % 10) + 1)

RECURSIVE ZeroPad(_, _)
\* n in at least w digits, as %02d and %04d do
ZeroPad(n, w) ==
    IF Len(NatStr(n)) >= w THEN NatStr(n)
    ELSE "0" \o ZeroPad(n, w - 1)

\* 0 = Monday .. 6 = Sunday, as datetime.weekday()
WeekdayOf(dt) ==
    LET t == <<0, 3, 2, 5, 0, 3, 5, 1, 4, 6, 2, 4>>
        y == IF dt.month < 3 THEN dt.year - 1 ELSE dt.year
        sun0 == (y + (y \div 4) - (y \div 100) + (y \div 400)
                   + t[dt.month] + dt.day) % 7
    IN  (sun0 + 6) % 7

DayAbbr == <<"Mon", "Tue", "Wed", "Thu", "Fri", "Sat", "Sun">>

MonthAbbr ==
    <<"Jan", "Feb", "Mar", "Apr", "May", "Jun", "Jul", "Aug", "Sep", "Oct",
      "Nov", "Dec">>

\* strftime('%Y%m%d'); the C library's %Y does not pad a year below 1000
FmtYmd(dt) == NatStr(dt.year) \o ZeroPad(dt.month, 2) \o ZeroPad(dt.day, 2)

\* strftime('%H:%M')
FmtHM(dt) == ZeroPad(dt.hour, 2) \o ":" \o ZeroPad(dt.minute, 2)

\* strftime('%Y%m%dT%H%M%S') of a value whose seconds are 0
FmtYmdHMS(dt) ==
    FmtYmd(dt) \o "T" \o ZeroPad(dt.hour, 2) \o ZeroPad(dt.minute, 2) \o "00"

\* strftime('%a %b %d')
FmtDay(dt) ==
    DayAbbr[WeekdayOf(dt) + 1] \o " " \o MonthAbbr[dt.month] \o " "
        \o ZeroPad(dt.day, 2)

IsoDate(dt) ==
    ZeroPad(dt.year, 4) \o "-" \o ZeroPad(dt.month, 2) \o "-"
        \o ZeroPad(dt.day, 2)

\* dt.isoformat()
IsoFormat(dt) == IsoDate(dt) \o "T" \o FmtHM(dt) \o ":00"

\* str(dt)
DtStr(dt) == IsoDate(dt) \o " " \o FmtHM(dt) \o ":00"

(***************************************************************************)
(* Serializers                                                             *)
(***************************************************************************)
RECURSIVE DigestChars(_)
\* a digest is made of hexadecimal digits whatever its input holds: the
\* digest of the model writes the input with its backslashes and line
\* breaks spelled out, which keeps different inputs apart
DigestChars(x) ==
    IF x = "" THEN ""
    ELSE (CASE Head(x) = "\\" -> "\\\\"
            [] Head(x) = "\r" -> "\\r"
            [] Head(x) = "\n" -> "\\n"
            [] OTHER -> Head(x)) \o DigestChars(Tail(x))

\* hashlib.md5(x.encode()).hexdigest(): a digest that stands for its input,
\* two inputs having the same digest only when they are equal
Md5Hex(x) == "md5(" \o DigestChars(x) \o ")"

RECURSIVE ReplaceChar(_, _, _)
\* s.replace(c, to) for a single character c
ReplaceChar(s, c, to) ==
    IF s = "" THEN ""
    ELSE (IF Head(s) = c THEN to ELSE Head(s)) \o ReplaceChar(Tail(s), c, to)

\* title.replace('\\', '\\\\').replace(',', '\\,').replace(';', '\\;')
EscapeText(title) ==
    ReplaceChar(ReplaceChar(ReplaceChar(title, "\\", "\\\\"), ",", "\\,"),
                ";", "\\;")

\* strftime('%Y%m%dT%H%M%SZ') of the clock reading
FmtStamp(now) == FmtYmdHMS(now.dt) \o "Z"

\* the value of the UID property of one event
Uid(event) == Md5Hex(event.title \o DtStr(event.start)) \o "@calscripts"

\* lines for one event whose UID takes the clock reading in
VEventLines_StampedUid(event, now) ==
    <<"BEGIN:VEVENT",
      "UID:" \o Md5Hex(event.title \o FmtStamp(now)) \o "@calscripts",
      "DTSTAMP:" \o FmtStamp(now)>>
    \o (IF event.all_day
        THEN <<"DTSTART;VALUE=DATE:" \o FmtYmd(event.start),
               "DTEND;VALUE=DATE:" \o FmtYmd(event.end)>>
        ELSE <<"DTSTART:" \o FmtYmdHMS(event.start),
               "DTEND:" \o FmtYmdHMS(event.end)>>)
    \o <<"SUMMARY:" \o EscapeText(event.title), "END:VEVENT">>

\* the lines appended for one event, now being the clock reading taken for
\* its DTSTAMP
VEventLines(event, now) ==
    <<"BEGIN:VEVENT",
      "UID:" \o Uid(event),
      "DTSTAMP:" \o FmtStamp(now)>>
    \o (IF event.all_day
        THEN <<"DTSTART;VALUE=DATE:" \o FmtYmd(event.start),
               "DTEND;VALUE=DATE:" \o FmtYmd(event.end)>>
        ELSE <<"DTSTART:" \o FmtYmdHMS(event.start),
               "DTEND:" \o FmtYmdHMS(event.end)>>)
    \o <<"SUMMARY:" \o EscapeText(event.title), "END:VEVENT">>

RECURSIVE AllVEventLines(_, _)
\* the loop over events; nows[k] is the clock reading of the k-th iteration
AllVEventLines(evs, nows) ==
    IF evs = <<>> THEN <<>>
    ELSE VEventLines(Head(evs), Head(nows))
             \o AllVEventLines(Tail(evs), Tail(nows))

RECURSIVE JoinLines(_, _)
\* sep.join(lines)
JoinLines(lines, sep) ==
    IF lines = <<>> THEN ""
    ELSE IF Len(lines) = 1 THEN lines[1]
    ELSE lines[1] \o sep \o JoinLines(Tail(lines), sep)

\* the list of lines events_to_ical builds
IcalLines(evs, nows) ==
    <<"BEGIN:VCALENDAR", "VERSION:2.0",
      "PRODID:-//calscripts//outlook_web//EN", "CALSCALE:GREGORIAN",
      "METHOD:PUBLISH">>
    \o AllVEventLines(evs, nows)
    \o <<"END:VCALENDAR">>

events_to_ical(evs, nows) == JoinLines(IcalLines(evs, nows), "\r\n")

\* JSON values as json.dumps sees them: a dict is a sequence of
\* <<key, value>> pairs in insertion order
JStr(x) == [t |-> "str", v |-> x]
JInt(n) == [t |-> "int", v |-> n]
JBool(b) == [t |-> "bool", v |-> b]
JNull == [t |-> "null", v |-> 0]
JArr(items) == [t |-> "arr", v |-> items]
JObj(members) == [t |-> "obj", v |-> members]

\* a json_events entry whose end repeats the start
JsonEvent_EndAsStart(event) ==
    JObj(<<<<"title", JStr(event.title)>>,
           <<"start", JStr(IsoFormat(event.start))>>,
           <<"end", JStr(IsoFormat(event.start))>>,
           <<"all_day", JBool(event.all_day)>>>>)

\* one entry of json_events
JsonEvent(event) ==
    JObj(<<<<"title", JStr(event.title)>>,
           <<"start", JStr(IsoFormat(event.start))>>,
           <<"end", JStr(IsoFormat(event.end))>>,
           <<"all_day", JBool(event.all_day)>>>>)

\* the dict output of events_to_json; target is <<>> for None
JsonOutput(evs, target, now) ==
    JObj(<<<<"target", IF target = <<>> THEN JNull ELSE JStr(target[1])>>,
           <<"fetched_at", JStr(IsoFormat(now.dt) \o "Z")>>,
           <<"event_count", JInt(Len(evs))>>,
           <<"events", JArr([k \in 1..Len(evs) |-> JsonEvent(evs[k])])>>>>)

\* one character inside a JSON string, as json.dumps writes it
JsonEscapeChar(c) ==
    CASE c = "\"" -> "\\\""
      [] c = "\\" -> "\\\\"
      [] c = "\n" -> "\\n"
      [] c = "\r" -> "\\r"
      [] c = "\t" -> "\\t"
      [] OTHER -> c

RECURSIVE JsonEscape(_)
JsonEscape(x) ==
    IF x = "" THEN "" ELSE JsonEscapeChar(Head(x)) \o JsonEscape(Tail(x))

RECURSIVE Spaces(_)
Spaces(n) == IF n = 0 THEN "" ELSE " " \o Spaces(n - 1)

RECURSIVE JsonDumps(_, _)
RECURSIVE DumpItems(_, _, _)
RECURSIVE DumpMembers(_, _, _)
\* json.dumps(value, indent=2), depth being the nesting level of value
JsonDumps(value, depth) ==
    CASE value.t = "str" -> "\"" \o JsonEscape(value.v) \o "\""
      [] value.t = "int" -> NatStr(value.v)
      [] value.t = "bool" -> (IF value.v THEN "true" ELSE "false")
      [] value.t = "null" -> "null"
      [] value.t = "arr" ->
           IF value.v = <<>> THEN "[]"
           ELSE "[\n" \o DumpItems(value.v, 1, depth + 1)
                      \o "\n" \o Spaces(2 * depth) \o "]"
      [] value.t = "obj" ->
           IF value.v = <<>> THEN "{}"
           ELSE "{\n" \o DumpMembers(value.v, 1, depth + 1)
                      \o "\n" \o Spaces(2 * depth) \o "}"

DumpItems(items, k, depth) ==
    Spaces(2 * depth) \o JsonDumps(items[k], depth)
        \o (IF k = Len(items) THEN ""
            ELSE ",\n" \o DumpItems(items, k + 1, depth))

DumpMembers(members, k, depth) ==
    Spaces(2 * depth) \o "\"" \o JsonEscape(members[k][1]) \o "\": "
        \o JsonDumps(members[k][2], depth)
        \o (IF k = Len(members) THEN ""
            ELSE ",\n" \o DumpMembers(members, k + 1, depth))

\* json.dumps(output, indent=2)
events_to_json(evs, target, now) == JsonDumps(JsonOutput(evs, target, now), 0)

\* the line the text listing prints for one event
TextLine(event) ==
    IF event.all_day
    THEN "  " \o FmtDay(event.start) \o " (all day) - " \o event.title
    ELSE "  " \o FmtDay(event.start) \o " " \o FmtHM(event.start) \o "-"
              \o FmtHM(event.end) \o " - " \o event.title

(***************************************************************************)
(* Inputs                                                                  *)
(***************************************************************************)
\* how many marker segments stand between the title and the date
MaxMarkers == 2

Titles == {"Team Sync", "", "current time indicator", " Offsite"}

Markers ==
    {"10:00 AM to 11:00 AM", "11:00 PM to 1:00 AM", "12:00 AM to 12:30 PM",
     "all day event", "noon to 1 PM", "13:00 PM to 2:00 PM",
     "9:75 AM to 10:00 AM"}

DateTails ==
    {"Tuesday, February 3, 2026", "Tuesday, February 30, 2026",
     "Monday, Foo 3, 2026", "Tuesday, February 3",
     "Friday, February 29, 2024", "Monday, January 2147483648, 2026",
     "Tuesday, February 3, 0000", "2026"}

Trailers == {"", ", extra", ", All Day"}

RECURSIVE MarkerText(_)
\* the marker segments of ms, each preceded by ", "
MarkerText(ms) ==
    IF ms = <<>> THEN "" ELSE ", " \o Head(ms) \o MarkerText(Tail(ms))

MarkerSeqs == UNION { [1..n -> Markers] : n \in 0..MaxMarkers }

\* raw strings made of a title, some markers, a date and a trailer
MarkerRaws ==
    { t \o MarkerText(ms) \o ", " \o d \o x :
        t \in Titles, ms \in MarkerSeqs, d \in DateTails, x \in Trailers }

\* the two ends of a 12-hour time range
Hours12 == {"1", "2", "3", "4", "5", "6", "7", "8", "9", "10", "11", "12"}
Minutes == {"00", "59"}
Meridiems == {"AM", "PM"}
ClockTimes ==
    { h \o ":" \o mi \o " " \o p : h \in Hours12, mi \in Minutes, p \in Meridiems }

\* raw strings with every pair of 12-hour times as the time range
TimeRaws ==
    { "Standup, " \o a \o " to " \o b \o ", Tuesday, February 3, 2026" :
        a \in ClockTimes, b \in ClockTimes }

\* raw strings of page furniture, and raw strings whose marker comes after
\* the weekday segment
ExtraRaws ==
    {"current time indicator, 9:41 AM",
     "calendar view, all day event, Tuesday, February 3, 2026",
     "calendar view for February, 10:00 AM to 11:00 AM, Tuesday, February 3, 2026",
     " \ncurrent timetable, all day event, Tuesday, February 3, 2026",
     "Calendar view, all day event, Tuesday, February 3, 2026",
     "My current time, all day event, Tuesday, February 3, 2026",
     "Team Sync, Tuesday, February 3, 2026, 10:00 AM to 11:00 AM",
     "Team Sync, Tuesday, 10:00 AM to 11:00 AM, February 3, 2026",
     "Team Sync, Tuesday, February 3, 2026, all day event",
     "Team Sync, room 4, Tuesday, February 3, 2026, extra, all day event"}

\* the raw strings parse_event is applied to
RawPool == MarkerRaws \cup TimeRaws \cup ExtraRaws

\* how many items one scrape of the page returns at most
MaxItems == 3

\* the strings the page script returns in the raw field of an item
ScrapedRaws ==
    {"Team Sync, 10:00 AM to 11:00 AM, Tuesday, February 3, 2026, extra",
     "Team Sync, 10:00 AM to 11:00 AM, Tuesday, February 3, 2026",
     "Offsite, all day event, Tuesday, February 3, 2026",
     "current time indicator, 9:41 AM",
     "12:30",
     "T, all day, Monday, January 2147483648, 2026"}

\* an item of events_data: a dict with a raw field, or something else (the
\* keys of the embedded-data dict of the second page script)
DictItem(r) == [dict |-> TRUE, raw |-> r]
OtherItem == [dict |-> FALSE, raw |-> ""]

ItemPool == { DictItem(r) : r \in ScrapedRaws } \cup {OtherItem}

EventsData == UNION { [1..n -> ItemPool] : n \in 0..MaxItems }

\* the command line: --json, --ical, --post and whether --output names a
\* file; the runs are those without --list-targets and --target, and with
\* at most one of the two format flags
ArgSets ==
    { a \in [json : BOOLEAN, ical : BOOLEAN, post : BOOLEAN,
             output : BOOLEAN] : ~(a.json /\ a.ical) }

\* config.toml: the [post] url, <<>> when there is none
Configs == [post_url : {<<>>, <<"https://collector.test/events">>}]

\* readings of datetime.now(timezone.utc)
Clock ==
    {[dt |-> [year |-> 2026, month |-> 2, day |-> 1, hour |-> 8,
              minute |-> 0]],
     [dt |-> [year |-> 2026, month |-> 2, day |-> 1, hour |-> 8,
              minute |-> 1]]}

\* the readings of n calls of datetime.now one after the other: the clock
\* does not run backwards
Readings(n) ==
    { r \in [1..n -> Clock] :
        \A k \in 1..(n - 1) : ~DtLess(r[k + 1].dt, r[k].dt) }

\* the certificate material of post_to_url, in the order it is checked
CertOrder_KeyFirst == <<"key", "cert", "CA">>

CertOrder == <<"CA", "cert", "key">>

FileNames == {"CA", "cert", "key"}

\* status codes a server answers with
Statuses == {200, 204, 302, 404, 500}

\* what client.post comes back with: a response, or a transport or TLS error
Outcomes ==
    [kind : {"response"}, status : Statuses]
        \cup {[kind |-> "error", status |-> 0]}

(***************************************************************************)
(* State                                                                   *)
(***************************************************************************)
VARIABLES
    pc,             \* where the run stands
    raw,            \* the argument of the parse_event call under way
    result,         \* what that call returned or raised
    args,           \* the parsed command line
    config,         \* the loaded configuration
    events_data,    \* the items the page script returned
    i,              \* position of the collector loop in events_data
    seen,           \* the collector's set of strings already taken
    events,         \* the list get_calendar_events returns (raw_events)
    j,              \* position of main's parse loop in raw_events
    parsed_events,  \* the accepted events
    json_output,    \* <<>> or the document of events_to_json
    out_file,       \* <<>> or what was written to the --output file
    stdout,         \* what was printed to standard output
    stderr,         \* the error reports printed
    files,          \* the certificate files found to exist
    ssl_context,    \* whether the SSL context has been built
    posts,          \* the POST requests sent
    post_ret        \* <<>> or the value post_to_url returned

parseVars == <<raw, result>>
collectVars == <<events_data, i, seen, events>>
outVars == <<json_output, out_file, stdout>>
postVars == <<files, ssl_context, posts, post_ret>>

vars ==
    <<pc, raw, result, args, config, events_data, i, seen, events, j,
      parsed_events, json_output, out_file, stdout, stderr, files,
      ssl_context, posts, post_ret>>

\* everything but pc, raw and result is as at the start of main
Idle ==
    /\ events_data = <<>> /\ i = 1 /\ seen = {} /\ events = <<>>
    /\ j = 1 /\ parsed_events = <<>>
    /\ json_output = <<>> /\ out_file = <<>> /\ stdout = <<>>
    /\ stderr = <<>>
    /\ files = {} /\ ssl_context = FALSE /\ posts = <<>> /\ post_ret = <<>>

(***************************************************************************)
(* parse_event applied to one raw string                                   *)
(***************************************************************************)
InitParse ==
    /\ pc = "parse_event"
    /\ raw \in RawPool
    /\ result = NoEvent
    /\ args = [json |-> FALSE, ical |-> FALSE, post |-> FALSE,
               output |-> FALSE]
    /\ config = [post_url |-> <<>>]
    /\ Idle

ParseEvent ==
    /\ pc = "parse_event"
    /\ result' = parse_event(raw)
    /\ pc' = "parsed"
    /\ UNCHANGED <<raw, args, config, collectVars, j, parsed_events, outVars,
                   stderr, postVars>>

NextParse == ParseEvent

SpecParse == InitParse /\ [][NextParse]_vars

(***************************************************************************)
(* events_to_ical and events_to_json applied to one list of events         *)
(***************************************************************************)
\* how many events the list handed to a serializer holds at most
MaxEvents == 2

\* how many times events_to_ical is called on the list at most
MaxCalls == 2

\* raw strings whose events are handed to the serializers: two events with
\* the same title and start, an all-day event, titles with the characters
\* the formats treat specially
SerialRaws ==
    {"Team Sync, 10:00 AM to 11:00 AM, Tuesday, February 3, 2026",
     "Team Sync, 10:00 AM to 11:30 AM, Tuesday, February 3, 2026",
     "Offsite, all day event, Tuesday, February 3, 2026",
     "A;B\\C \"q\", 11:00 PM to 1:00 AM, Friday, February 29, 2024",
     "X\r\nUID:0, all day event, Tuesday, February 3, 2026"}

\* the events parse_event makes of them
SerialEvents ==
    { e \in { parse_event(r) : r \in SerialRaws } : e.kind = "event" }

EventLists == UNION { [1..n -> SerialEvents] : n \in 0..MaxEvents }

\* the target argument of events_to_json, <<>> for None
Targets == {<<>>, <<"work">>}

InitSerial ==
    /\ pc = "serialize"
    /\ raw = ""
    /\ result = NoEvent
    /\ args = [json |-> FALSE, ical |-> FALSE, post |-> FALSE,
               output |-> FALSE]
    /\ config = [post_url |-> <<>>]
    /\ events_data = <<>> /\ i = 1 /\ seen = {} /\ events = <<>>
    /\ j = 1
    /\ parsed_events \in EventLists
    /\ json_output = <<>> /\ out_file = <<>> /\ stdout = <<>>
    /\ stderr = <<>>
    /\ files = {} /\ ssl_context = FALSE /\ posts = <<>> /\ post_ret = <<>>

\* one call of events_to_ical; the documents are kept in call order
SerializeIcal ==
    /\ pc = "serialize"
    /\ Len(stdout) < MaxCalls
    /\ \E nows \in Readings(Len(parsed_events)) :
         stdout' = Append(stdout, events_to_ical(parsed_events, nows))
    /\ UNCHANGED <<pc, raw, result, args, config, collectVars, j,
                   parsed_events, json_output, out_file, stderr, postVars>>

\* one call of events_to_json
SerializeJson ==
    /\ pc = "serialize"
    /\ stdout = <<>>
    /\ \E target \in Targets, now \in Clock :
         json_output' = <<events_to_json(parsed_events, target, now)>>
    /\ pc' = "serialized"
    /\ UNCHANGED <<raw, result, args, config, collectVars, j, parsed_events,
                   out_file, stdout, stderr, postVars>>

NextSerial == SerializeIcal \/ SerializeJson

SpecSerial == InitSerial /\ [][NextSerial]_vars

(***************************************************************************)
(* main, with get_calendar_events and post_to_url                          *)
(***************************************************************************)
Init ==
    /\ pc = "main"
    /\ raw = ""
    /\ result = NoEvent
    /\ args \in ArgSets
    /\ config \in Configs
    /\ Idle

Report(msg, detail) == [msg |-> msg, detail |-> detail]

\* --post without --json: main returns before anything is fetched
MainPostRequiresJson ==
    /\ pc = "main"
    /\ args.post /\ ~args.json
    /\ stderr' = Append(stderr, Report("--post requires --json flag", ""))
    /\ pc' = "done"
    /\ UNCHANGED <<parseVars, args, config, collectVars, j, parsed_events,
                   outVars, postVars>>

\* get_calendar_events up to the collector loop: the page script has
\* returned events_data
GetCalendarEvents ==
    /\ pc = "main"
    /\ ~(args.post /\ ~args.json)
    /\ \E data \in EventsData : events_data' = data
    /\ i' = 1
    /\ seen' = {}
    /\ events' = <<>>
    /\ pc' = "collect"
    /\ UNCHANGED <<parseVars, args, config, j, parsed_events, outVars, stderr,
                   postVars>>

\* a filter that lets a string already seen through again
Keep_Again(r, seenSet) == r # "" /\ Len(r) > 5

\* raw and raw not in seen and len(raw) > 5
Keep(r, seenSet) == r # "" /\ r \notin seenSet /\ Len(r) > 5

\* one iteration of the collector loop
CollectStep ==
    /\ pc = "collect"
    /\ i <= Len(events_data)
    /\ LET item == events_data[i]
       IN  IF item.dict /\ Keep(item.raw, seen)
           THEN /\ seen' = seen \cup {item.raw}
                /\ events' = Append(events, item.raw)
           ELSE UNCHANGED <<seen, events>>
    /\ i' = i + 1
    /\ UNCHANGED <<pc, parseVars, args, config, events_data, j, parsed_events,
                   outVars, stderr, postVars>>

\* return events
CollectReturn ==
    /\ pc = "collect"
    /\ i > Len(events_data)
    /\ pc' = "raw_events"
    /\ j' = 1
    /\ UNCHANGED <<parseVars, args, config, collectVars, parsed_events,
                   outVars, stderr, postVars>>

\* if not raw_events: return
MainNoEvents ==
    /\ pc = "raw_events"
    /\ events = <<>>
    /\ stderr' = Append(stderr, Report("No events found", ""))
    /\ pc' = "done"
    /\ UNCHANGED <<parseVars, args, config, collectVars, j, parsed_events,
                   outVars, postVars>>

\* a loop body that puts the new event in front
Accept_InFront(parsed, event) ==
    IF event.kind = "event" THEN <<event>> \o parsed ELSE parsed

\* if event: parsed_events.append(event)
Accept(parsed, event) ==
    IF event.kind = "event" THEN Append(parsed, event) ELSE parsed

\* one iteration of the parse loop; an exception of parse_event ends main
MainParseStep ==
    /\ pc = "raw_events"
    /\ events # <<>>
    /\ j <= Len(events)
    /\ raw' = events[j]
    /\ result' = parse_event(events[j])
    /\ IF result'.kind = "raise"
       THEN /\ pc' = "crashed"
            /\ UNCHANGED <<j, parsed_events>>
       ELSE /\ parsed_events' = Accept(parsed_events, result')
            /\ j' = j + 1
            /\ pc' = pc
    /\ UNCHANGED <<args, config, collectVars, outVars, stderr, postVars>>

\* the parse loop is over
MainParsed ==
    /\ pc = "raw_events"
    /\ events # <<>>
    /\ j > Len(events)
    /\ pc' = "output"
    /\ UNCHANGED <<parseVars, args, config, collectVars, j, parsed_events,
                   outVars, stderr, postVars>>

\* if args.json: the document is built; with --post and no URL main returns
MainOutputJson ==
    /\ pc = "output"
    /\ args.json
    /\ \E now \in Clock :
         json_output' = <<events_to_json(parsed_events, <<>>, now)>>
    /\ IF args.post
       THEN IF config.post_url = <<>>
            THEN /\ stderr' = Append(stderr,
                                     Report("No POST URL configured", ""))
                 /\ pc' = "done"
            ELSE /\ pc' = "post_to_url"
                 /\ UNCHANGED stderr
       ELSE /\ pc' = "write_json"
            /\ UNCHANGED stderr
    /\ UNCHANGED <<parseVars, args, config, collectVars, j, parsed_events,
                   out_file, stdout, postVars>>

\* elif args.ical
MainOutputIcal ==
    /\ pc = "output"
    /\ ~args.json /\ args.ical
    /\ \E nows \in Readings(Len(parsed_events)) :
         LET ical_output == events_to_ical(parsed_events, nows)
         IN  IF args.output
             THEN out_file' = <<ical_output>> /\ UNCHANGED stdout
             ELSE stdout' = Append(stdout, ical_output) /\ UNCHANGED out_file
    /\ pc' = "done"
    /\ UNCHANGED <<parseVars, args, config, collectVars, j, parsed_events,
                   json_output, stderr, postVars>>

\* else: the text listing
MainOutputText ==
    /\ pc = "output"
    /\ ~args.json /\ ~args.ical
    /\ stdout' = stdout \o [k \in 1..Len(parsed_events) |->
                              TextLine(parsed_events[k])]
    /\ pc' = "done"
    /\ UNCHANGED <<parseVars, args, config, collectVars, j, parsed_events,
                   json_output, out_file, stderr, postVars>>

\* the first name of order whose file is not among exist
FirstMissing(order, exist) ==
    order[CHOOSE k \in 1..Len(order) :
            /\ order[k] \notin exist
            /\ \A m \in 1..(k - 1) : order[m] \in exist]

\* post_to_url: the certificate files are looked up
PostCheckFiles ==
    /\ pc = "post_to_url"
    /\ \E exist \in SUBSET FileNames :
         /\ files' = exist
         /\ IF exist # FileNames
            THEN /\ stderr' = Append(stderr,
                                Report("mTLS file not found",
                                       FirstMissing(CertOrder, exist)))
                 /\ post_ret' = <<FALSE>>
                 /\ pc' = "write_json"
            ELSE /\ pc' = "ssl_context"
                 /\ UNCHANGED <<stderr, post_ret>>
    /\ UNCHANGED <<parseVars, args, config, collectVars, j, parsed_events,
                   outVars, ssl_context, posts>>

\* post_to_url: the SSL context is created and loaded, or loading raises
PostBuildContext ==
    /\ pc = "ssl_context"
    /\ \E loaded \in BOOLEAN :
         IF loaded
         THEN /\ ssl_context' = TRUE
              /\ pc' = "client_post"
              /\ UNCHANGED <<stderr, post_ret>>
         ELSE /\ stderr' = Append(stderr, Report("POST failed", "ssl"))
              /\ post_ret' = <<FALSE>>
              /\ pc' = "write_json"
              /\ UNCHANGED ssl_context
    /\ UNCHANGED <<parseVars, args, config, collectVars, j, parsed_events,
                   outVars, files, posts>>

\* a status check that lets redirects pass
IsSuccess_Below400(status) == status < 400

\* response.raise_for_status() does not raise: httpx raises HTTPStatusError
\* for every status outside 2xx
IsSuccess(status) == status \in 200..299

\* post_to_url: client.post and what follows it
PostSend ==
    /\ pc = "client_post"
    /\ \E outcome \in Outcomes :
         /\ posts' = Append(posts, [url |-> config.post_url[1],
                                    content |-> json_output[1],
                                    outcome |-> outcome])
         /\ IF outcome.kind = "response" /\ IsSuccess(outcome.status)
            THEN /\ post_ret' = <<TRUE>>
                 /\ UNCHANGED stderr
            ELSE /\ post_ret' = <<FALSE>>
                 /\ stderr' = Append(stderr,
                        IF outcome.kind = "response"
                        THEN Report("HTTP error", NatStr(outcome.status))
                        ELSE Report("POST failed", "transport"))
    /\ pc' = "write_json"
    /\ UNCHANGED <<parseVars, args, config, collectVars, j, parsed_events,
                   outVars, files, ssl_context>>

\* a write that is skipped after a failed delivery
WritesFile_IfDelivered(a, ret) == a.output /\ ret # <<FALSE>>

\* if args.output
WritesFile(a, ret) == a.output

\* the document goes to the output file, or to stdout without --post
MainWriteJson ==
    /\ pc = "write_json"
    /\ IF WritesFile(args, post_ret)
       THEN out_file' = json_output /\ UNCHANGED stdout
       ELSE IF ~args.post
       THEN stdout' = Append(stdout, json_output[1]) /\ UNCHANGED out_file
       ELSE UNCHANGED <<out_file, stdout>>
    /\ pc' = "done"
    /\ UNCHANGED <<parseVars, args, config, collectVars, j, parsed_events,
                   json_output, stderr, postVars>>

Next ==
    \/ MainPostRequiresJson
    \/ GetCalendarEvents
    \/ CollectStep
    \/ CollectReturn
    \/ MainNoEvents
    \/ MainParseStep
    \/ MainParsed
    \/ MainOutputJson
    \/ MainOutputIcal
    \/ MainOutputText
    \/ PostCheckFiles
    \/ PostBuildContext
    \/ PostSend
    \/ MainWriteJson

Spec == Init /\ [][Next]_vars

(***************************************************************************)
(* Properties of parse_event                                               *)
(***************************************************************************)
Accepted == pc = "parsed" /\ result.kind = "event"

DateOf(dt) == <<dt.year, dt.month, dt.day>>

\* C1: every accepted event returned by parse_event has start <= end
C1_StartNotAfterEnd == Accepted => DtLeq(result.start, result.end)

\* C4: parse_event returns an event or None for every raw string, no
\* exception of a numeric or date conversion escapes it
C4_NeverRaises == pc = "parsed" => result.kind # "raise"

\* C5: the title of every accepted event is a non-empty string
C5_TitleNonEmpty == Accepted => result.title # ""

\* C6: an accepted all-day event starts at 00:00 and ends at 23:59 of one
\* and the same calendar day, the day of the parsed date, a time range
\* marker in the same raw string notwithstanding
C6_AllDaySpansDay ==
    Accepted /\ result.all_day =>
        /\ result.start.hour = 0 /\ result.start.minute = 0
        /\ result.end.hour = 23 /\ result.end.minute = 59
        /\ DateOf(result.start) = DateOf(result.end)
        /\ Contains(raw, "Tuesday, February 3, 2026")
             => DateOf(result.start) = <<2026, 2, 3>>
        /\ Contains(raw, "Friday, February 29, 2024")
             => DateOf(result.start) = <<2024, 2, 29>>

\* an all-day event accepted from a raw string that also has a time range
C6_Witness ==
    /\ Accepted
    /\ result.all_day
    /\ Contains(raw, "10:00 AM to 11:00 AM, all day event")

(***************************************************************************)
(* Properties of the collector and the parse loop                          *)
(***************************************************************************)
\* the position of the first item of events_data that carries the string r
FirstIndex(r) ==
    CHOOSE k \in 1..Len(events_data) :
        /\ events_data[k] = DictItem(r)
        /\ \A m \in 1..(k - 1) : events_data[m] # DictItem(r)

\* C2: the list the collector loop builds has no duplicate strings, its
\* elements are strings of the input in the order of their first
\* occurrence there, and none has length 5 or less
C2_CollectorOutput ==
    /\ \A a, b \in 1..Len(events) : a # b => events[a] # events[b]
    /\ \A a \in 1..Len(events) :
         /\ Len(events[a]) > 5
         /\ \E k \in 1..Len(events_data) : events_data[k] = DictItem(events[a])
    /\ \A a, b \in 1..Len(events) :
         a < b => FirstIndex(events[a]) < FirstIndex(events[b])

\* the collector has returned two strings from an input with a repetition
C2_Witness ==
    /\ pc = "raw_events"
    /\ Len(events) = 2
    /\ \E a, b \in 1..Len(events_data) :
         a < b /\ events_data[a] = events_data[b] /\ events_data[a].dict
               /\ Len(events_data[a].raw) > 5

SameEvent(e, f) ==
    /\ e.title = f.title
    /\ e.start = f.start
    /\ e.end = f.end
    /\ e.all_day = f.all_day

\* C3: the list of accepted events never holds two events with the same
\* title, start, end and all_day
C3_NoDuplicateEvents ==
    \A a, b \in 1..Len(parsed_events) :
        a # b => ~SameEvent(parsed_events[a], parsed_events[b])

\* the parse loop has gone through all of raw_events
ParseLoopDone ==
    /\ events # <<>>
    /\ j > Len(events)
    /\ pc \in {"raw_events", "output", "post_to_url", "ssl_context",
               "client_post", "write_json", "done"}

\* the position in raw_events of the candidate an accepted event came from
CandidateOf(e) == { k \in 1..Len(events) : events[k] = e.raw }

Scenario1 ==
    "Team Sync, 10:00 AM to 11:00 AM, Tuesday, February 3, 2026, extra"

\* C7: every accepted event comes from exactly one collected candidate, no
\* candidate yields two events, the accepted events stand in the order of
\* their candidates, and a raw string that occurs in the input, be it
\* twice, yields one event and never two
C7_OneToOneInOrder ==
    /\ \A a \in 1..Len(parsed_events) :
         Cardinality(CandidateOf(parsed_events[a])) = 1
    /\ \A a, b \in 1..Len(parsed_events) :
         a # b => parsed_events[a].raw # parsed_events[b].raw
    /\ \A a, b \in 1..Len(parsed_events) :
         a < b => \A ka \in CandidateOf(parsed_events[a]) :
                    \A kb \in CandidateOf(parsed_events[b]) : ka < kb
    /\ Len(parsed_events) <= Len(events)
    /\ ParseLoopDone
         /\ (\E k \in 1..Len(events_data) :
                events_data[k] = DictItem(Scenario1))
         => Cardinality({ a \in 1..Len(parsed_events) :
                            parsed_events[a].raw = Scenario1 }) = 1

\* two events accepted in order from an input that repeats a raw string
C7_Witness ==
    /\ ParseLoopDone
    /\ Len(parsed_events) = 2
    /\ \E a, b \in 1..Len(events_data) :
         a < b /\ events_data[a] = events_data[b]
               /\ events_data[a] = DictItem(Scenario1)

(***************************************************************************)
(* Properties of post_to_url and of the output stage                       *)
(***************************************************************************)
\* post_to_url has returned
PostReturned == post_ret # <<>>

Got2xx ==
    /\ Len(posts) = 1
    /\ posts[1].outcome.kind = "response"
    /\ posts[1].outcome.status \in 200..299

\* C8 as stated: with the three certificate files in place a call of
\* post_to_url makes exactly one POST and returns True exactly when that
\* POST was answered with a 2xx status
C8_ExactlyOnePost ==
    PostReturned /\ files = FileNames =>
        /\ Len(posts) = 1
        /\ post_ret[1] <=> Got2xx

\* C8 as amended: with the three certificate files in place a call of
\* post_to_url makes at most one POST and never a second one: exactly one
\* when the SSL context was built, none when building it raised; it returns
\* True exactly when a POST was made and answered with a 2xx status, and
\* False for any other status, a transport error or a failed context
C8_AtMostOnePost ==
    /\ Len(posts) <= 1
    /\ PostReturned /\ files = FileNames =>
         /\ Len(posts) = 1 <=> ssl_context
         /\ post_ret[1] <=> Got2xx
         /\ \A k \in 1..Len(posts) : posts[k].content = json_output[1]

\* one POST was made, answered with a status outside 2xx, and reported as
\* a failure
C8_Witness ==
    /\ PostReturned
    /\ files = FileNames
    /\ Len(posts) = 1
    /\ posts[1].outcome.kind = "response"
    /\ posts[1].outcome.status = 302
    /\ post_ret = <<FALSE>>

\* C9: with a certificate file missing post_to_url returns False, builds no
\* SSL context and sends nothing, and the report names the first missing
\* file in the order CA, cert, key
C9_MissingFileFailsFast ==
    /\ ssl_context => files = FileNames
    /\ posts # <<>> => files = FileNames
    /\ PostReturned /\ files # FileNames =>
         /\ post_ret = <<FALSE>>
         /\ ~ssl_context
         /\ posts = <<>>
         /\ stderr # <<>>
         /\ stderr[Len(stderr)] =
              Report("mTLS file not found",
                     IF "CA" \notin files THEN "CA"
                     ELSE IF "cert" \notin files THEN "cert" ELSE "key")

\* the call failed with the CA and the client certificate both missing
C9_Witness ==
    /\ PostReturned
    /\ files = {"key"}
    /\ post_ret = <<FALSE>>

JsonPostOutputRun ==
    /\ pc = "done"
    /\ args.json /\ args.post /\ args.output
    /\ json_output # <<>>

\* C10 as stated: a run with --json, --post and --output in which the
\* document was produced ends with that document in the output file
C10_DocumentWritten == JsonPostOutputRun => out_file = json_output

\* C10 as amended: a run with --json, --post and --output in which the
\* document was produced and a POST URL is configured ends with that
\* document in the output file, whatever post_to_url returned
C10_DocumentWrittenAfterDelivery ==
    JsonPostOutputRun /\ config.post_url # <<>> =>
        /\ PostReturned
        /\ out_file = json_output

\* the delivery failed and the document is in the output file
C10_Witness ==
    /\ JsonPostOutputRun
    /\ post_ret = <<FALSE>>
    /\ out_file = json_output

(***************************************************************************)
(* The iCal and JSON documents                                             *)
(***************************************************************************)
\* where sep occurs in s
SepPositions(s, sep) ==
    { k \in 1..(Len(s) - Len(sep) + 1) : SubSeq(s, k, k + Len(sep) - 1) = sep }

RECURSIVE SplitAt(_, _, _, _)
\* the pieces of s from position cur on, cut at the separators of width w
\* that start at the positions P
SplitAt(s, P, w, cur) ==
    IF P = {} THEN <<SubSeq(s, cur, Len(s))>>
    ELSE LET k == CHOOSE x \in P : \A y \in P : x <= y
         IN <<SubSeq(s, cur, k - 1)>> \o SplitAt(s, P \ {k}, w, k + w)

\* s.split(sep) for a separator that cannot overlap itself
SplitOn(s, sep) == SplitAt(s, SepPositions(s, sep), Len(sep), 1)

\* the lines of an iCal document: its content lines end in CRLF
DocLines(doc) == SplitOn(doc, "\r\n")

\* the positions of the lines of ls that are equal to l, in order
Positions(ls, l) == { k \in 1..Len(ls) : ls[k] = l }

\* the n-th smallest element of the set of numbers S
RECURSIVE Nth(_, _)
Nth(S, n) ==
    LET lo == CHOOSE x \in S : \A y \in S : x <= y
    IN IF n = 1 THEN lo ELSE Nth(S \ {lo}, n - 1)

\* the value of the UID line that opens the a-th VEVENT block of the lines
UidOfBlock(ls, a) ==
    LET b == Nth(Positions(ls, "BEGIN:VEVENT"), a)
    IN SubSeq(ls[b + 1], 5, Len(ls[b + 1]))

\* two events differ in one of title, start, end, all_day
Distinct(e, f) ==
    \/ e.title # f.title \/ e.start # f.start
    \/ e.end # f.end \/ e.all_day # f.all_day

\* C11: in every document of events_to_ical, the a-th block carries the UID
\* line of the a-th event, two events equal in title and start carry the
\* same UID, and two events of the list that differ in any of title, start,
\* end, all_day carry different UIDs
C11_UniqueUids ==
    \A d \in 1..Len(stdout) :
        LET ls == DocLines(stdout[d])
        IN /\ Cardinality(Positions(ls, "BEGIN:VEVENT")) = Len(parsed_events)
           /\ \A a, b \in 1..Len(parsed_events) :
                /\ StartsWith(ls[Nth(Positions(ls, "BEGIN:VEVENT"), a) + 1],
                              "UID:")
                /\ (parsed_events[a].title = parsed_events[b].title
                    /\ parsed_events[a].start = parsed_events[b].start)
                       => UidOfBlock(ls, a) = UidOfBlock(ls, b)
                /\ Distinct(parsed_events[a], parsed_events[b])
                       => UidOfBlock(ls, a) # UidOfBlock(ls, b)

\* json.loads of a document laid out as json.dumps(indent=2) lays it out:
\* one scalar, one member or one bracket a line. A result is ok with the
\* value and the line after it, or not ok
Undecoded == [ok |-> FALSE, v |-> JNull, next |-> 0]
Decoded(value, next) == [ok |-> TRUE, v |-> value, next |-> next]

\* a line without its indentation and without the comma that ends it
LineBody(line) ==
    LET l == LStrip(line)
    IN IF l # "" /\ SubSeq(l, Len(l), Len(l)) = ","
       THEN SubSeq(l, 1, Len(l) - 1) ELSE l

RECURSIVE Unescape(_)
\* the string a JSON string body stands for, <<>> when it is malformed
Unescape(x) ==
    IF x = "" THEN <<"">>
    ELSE IF Head(x) = "\\"
         THEN IF Len(x) < 2 THEN <<>>
              ELSE LET c == SubSeq(x, 2, 2)
                       u == CASE c = "\"" -> <<"\"">>
                              [] c = "\\" -> <<"\\">>
                              [] c = "n" -> <<"\n">>
                              [] c = "r" -> <<"\r">>
                              [] c = "t" -> <<"\t">>
                              [] OTHER -> <<>>
                       rest == Unescape(SubSeq(x, 3, Len(x)))
                   IN IF u = <<>> \/ rest = <<>> THEN <<>>
                      ELSE <<u[1] \o rest[1]>>
         ELSE IF Head(x) \in {"\"", "\n", "\r", "\t"} THEN <<>>
         ELSE LET rest == Unescape(Tail(x))
              IN IF rest = <<>> THEN <<>> ELSE <<Head(x) \o rest[1]>>

\* the scalar written as t
DecodeScalar(t, next) ==
    IF t = "null" THEN Decoded(JNull, next)
    ELSE IF t = "true" THEN Decoded(JBool(TRUE), next)
    ELSE IF t = "false" THEN Decoded(JBool(FALSE), next)
    ELSE IF Len(t) >= 2 /\ Head(t) = "\"" /\ SubSeq(t, Len(t), Len(t)) = "\""
         THEN LET u == Unescape(SubSeq(t, 2, Len(t) - 1))
              IN IF u = <<>> THEN Undecoded ELSE Decoded(JStr(u[1]), next)
    ELSE IF t # "" /\ \A n \in 1..Len(t) : SubSeq(t, n, n) \in Digit
         THEN Decoded(JInt(DigitsValue(t, 0)), next)
    ELSE Undecoded

RECURSIVE DecodeValue(_, _, _)
RECURSIVE DecodeMembers(_, _, _)
RECURSIVE DecodeItems(_, _, _)
\* the value that starts on line k with the text t
DecodeValue(ls, k, t) ==
    IF t = "{" THEN DecodeMembers(ls, k + 1, <<>>)
    ELSE IF t = "[" THEN DecodeItems(ls, k + 1, <<>>)
    ELSE IF t = "{}" THEN Decoded(JObj(<<>>), k + 1)
    ELSE IF t = "[]" THEN Decoded(JArr(<<>>), k + 1)
    ELSE DecodeScalar(t, k + 1)

DecodeMembers(ls, k, acc) ==
    IF k > Len(ls) THEN Undecoded
    ELSE LET b == LineBody(ls[k])
             Q == SepPositions(b, "\": ")
         IN IF b = "}" THEN Decoded(JObj(acc), k + 1)
            ELSE IF Q = {} \/ Head(b) # "\"" THEN Undecoded
            ELSE LET q == CHOOSE x \in Q : \A y \in Q : x <= y
                     key == Unescape(SubSeq(b, 2, q - 1))
                     val == DecodeValue(ls, k, SubSeq(b, q + 3, Len(b)))
                 IN IF key = <<>> \/ ~val.ok THEN Undecoded
                    ELSE DecodeMembers(ls, val.next,
                                       Append(acc, <<key[1], val.v>>))

DecodeItems(ls, k, acc) ==
    IF k > Len(ls) THEN Undecoded
    ELSE LET b == LineBody(ls[k])
         IN IF b = "]" THEN Decoded(JArr(acc), k + 1)
            ELSE LET val == DecodeValue(ls, k, b)
                 IN IF ~val.ok THEN Undecoded
                    ELSE DecodeItems(ls, val.next, Append(acc, val.v))

\* json.loads(text): <<value>>, or <<>> when text does not decode
JsonLoads(text) ==
    LET ls == SplitOn(text, "\n")
        r == DecodeValue(ls, 1, LineBody(ls[1]))
    IN IF r.ok /\ r.next = Len(ls) + 1 THEN <<r.v>> ELSE <<>>

\* the keys of a decoded object and the value under one of them
Keys(obj) == { obj.v[n][1] : n \in 1..Len(obj.v) }
Get(obj, key) == obj.v[CHOOSE n \in 1..Len(obj.v) : obj.v[n][1] = key][2]

IsStr(value, x) == value.t = "str" /\ value.v = x

\* datetime.fromisoformat of a decoded value, NoDatetime when it is not the
\* ISO text of a date and time with seconds 00
FromIso(value) ==
    IF /\ value.t = "str"
       /\ Len(value.v) = 19
       /\ \A n \in {1, 2, 3, 4, 6, 7, 9, 10, 12, 13, 15, 16} :
              SubSeq(value.v, n, n) \in Digit
       /\ SubSeq(value.v, 5, 5) = "-" /\ SubSeq(value.v, 8, 8) = "-"
       /\ SubSeq(value.v, 11, 11) = "T"
       /\ SubSeq(value.v, 14, 19) = ":"
              \o SubSeq(value.v, 15, 16) \o ":00"
    THEN [year |-> DigitsValue(SubSeq(value.v, 1, 4), 0),
          month |-> DigitsValue(SubSeq(value.v, 6, 7), 0),
          day |-> DigitsValue(SubSeq(value.v, 9, 10), 0),
          hour |-> DigitsValue(SubSeq(value.v, 12, 13), 0),
          minute |-> DigitsValue(SubSeq(value.v, 15, 16), 0)]
    ELSE NoDatetime

\* events_to_json has been applied to a non-empty list
JsonSerialized ==
    pc = "serialized" /\ json_output # <<>> /\ parsed_events # <<>>

\* C12: the document events_to_json makes of a non-empty list decodes to an
\* object whose event_count is the length of the list and whose events
\* array has, in the order of the list, one object per event with exactly
\* the keys title, start, end, all_day, holding the event's values
C12_JsonRoundTrip ==
    JsonSerialized =>
        LET dec == JsonLoads(json_output[1])
            n == Len(parsed_events)
        IN /\ dec # <<>>
           /\ dec[1].t = "obj"
           /\ {"event_count", "events"} \subseteq Keys(dec[1])
           /\ Get(dec[1], "event_count").t = "int"
           /\ Get(dec[1], "event_count").v = n
           /\ Get(dec[1], "events").t = "arr"
           /\ Len(Get(dec[1], "events").v) = n
           /\ \A k \in 1..n :
                LET e == Get(dec[1], "events").v[k]
                    event == parsed_events[k]
                IN /\ e.t = "obj"
                   /\ Len(e.v) = 4
                   /\ Keys(e) = {"title", "start", "end", "all_day"}
                   /\ IsStr(Get(e, "title"), event.title)
                   /\ FromIso(Get(e, "start")) = event.start
                   /\ FromIso(Get(e, "end")) = event.end
                   /\ Get(e, "all_day").t = "bool"
                   /\ Get(e, "all_day").v = event.all_day

\* a list of two events, one title with a quote and a backslash, one with a
\* line break, has been encoded
C12_Witness ==
    /\ JsonSerialized
    /\ Len(parsed_events) = 2
    /\ Contains(parsed_events[1].title, "\\C \"q\"")
    /\ Contains(parsed_events[2].title, "\r\n")
    /\ parsed_events[1].end # parsed_events[1].start
    /\ JsonLoads(json_output[1]) # <<>>

\* line l is a DTSTAMP line
IsStampLine(l) == StartsWith(l, "DTSTAMP:")

\* C13: any two documents events_to_ical made of the same list, at whatever
\* instants, have the same number of lines, and every line of one is equal
\* to the line at the same place in the other unless both are DTSTAMP lines
C13_IcalDeterministic ==
    \A a, b \in 1..Len(stdout) :
        LET la == DocLines(stdout[a])
            lb == DocLines(stdout[b])
        IN /\ Len(la) = Len(lb)
           /\ \A k \in 1..Len(la) :
                \/ la[k] = lb[k]
                \/ IsStampLine(la[k]) /\ IsStampLine(lb[k])

\* two calls on a list of two events, made at different instants, gave
\* different documents
C13_Witness ==
    /\ Len(parsed_events) = 2
    /\ Len(stdout) = 2
    /\ stdout[1] # stdout[2]

\* x is a string of n digits
IsDigits(x, n) == Len(x) = n /\ \A k \in 1..n : SubSeq(x, k, k) \in Digit

\* value is a date in the form YYYYMMDD
IsDateForm(value) == IsDigits(value, 8)

\* value is a local time in the form YYYYMMDDThhmmss
IsLocalForm(value) ==
    /\ Len(value) = 15
    /\ IsDigits(SubSeq(value, 1, 8), 8)
    /\ SubSeq(value, 9, 9) = "T"
    /\ IsDigits(SubSeq(value, 10, 15), 6)

\* the lines of ls strictly between positions b and e that start with name
Named(ls, b, e, name) ==
    { k \in (b + 1)..(e - 1) : StartsWith(ls[k], name) }

\* the one line of ls between b and e that starts with name has the form
\* name followed by a value of the form the event asks for
DateLineOk(ls, b, e, name, event) ==
    /\ Cardinality(Named(ls, b, e, name)) = 1
    /\ LET l == ls[CHOOSE k \in Named(ls, b, e, name) : TRUE]
       IN IF event.all_day
          THEN /\ StartsWith(l, name \o ";VALUE=DATE:")
               /\ IsDateForm(SubSeq(l, Len(name) + 13, Len(l)))
          ELSE /\ StartsWith(l, name \o ":")
               /\ IsLocalForm(SubSeq(l, Len(name) + 2, Len(l)))

\* C18: every document events_to_ical makes of n events is one VCALENDAR
\* with exactly n BEGIN:VEVENT and n END:VEVENT lines, the a-th pair
\* enclosing exactly one UID, DTSTAMP, DTSTART, DTEND and SUMMARY line, the
\* two dates in VALUE=DATE form for an all-day event and in bare local form
\* otherwise
C18_OneBlockPerEvent ==
    \A d \in 1..Len(stdout) :
        LET ls == DocLines(stdout[d])
            n == Len(parsed_events)
            B == Positions(ls, "BEGIN:VEVENT")
            E == Positions(ls, "END:VEVENT")
        IN /\ ls[1] = "BEGIN:VCALENDAR"
           /\ ls[Len(ls)] = "END:VCALENDAR"
           /\ Cardinality(Positions(ls, "BEGIN:VCALENDAR")) = 1
           /\ Cardinality(Positions(ls, "END:VCALENDAR")) = 1
           /\ Cardinality(B) = n
           /\ Cardinality(E) = n
           /\ \A a \in 1..n :
                LET b == Nth(B, a)
                    e == Nth(E, a)
                IN /\ b < e
                   /\ a < n => e < Nth(B, a + 1)
                   /\ Cardinality(Named(ls, b, e, "UID:")) = 1
                   /\ Cardinality(Named(ls, b, e, "DTSTAMP:")) = 1
                   /\ Cardinality(Named(ls, b, e, "SUMMARY:")) = 1
                   /\ DateLineOk(ls, b, e, "DTSTART", parsed_events[a])
                   /\ DateLineOk(ls, b, e, "DTEND", parsed_events[a])

(***************************************************************************)
(* parse_event: sentinels, time ranges, the date marker                    *)
(***************************************************************************)
\* the text of raw before its first comma, without the whitespace around it
FirstSegment(x) == Strip(SplitOn(x, ",")[1])

\* x begins with one of the two sentinel prefixes, in this very case
HasSentinelPrefix(x) ==
    \/ Len(x) >= 13 /\ SubSeq(x, 1, 13) = "calendar view"
    \/ Len(x) >= 12 /\ SubSeq(x, 1, 12) = "current time"

\* C14: a raw string whose first trimmed segment begins with 'calendar view'
\* or 'current time' is rejected, no accepted event has a title with such a
\* prefix, and "current time indicator, 9:41 AM" is rejected
C14_SentinelsRejected ==
    pc = "parsed" =>
        /\ HasSentinelPrefix(FirstSegment(raw)) => result.kind = "None"
        /\ result.kind = "event" => ~HasSentinelPrefix(result.title)
        /\ raw = "current time indicator, 9:41 AM" => result.kind = "None"

\* a string that has a marker and a valid date, and a sentinel title behind
\* leading whitespace, has been rejected
C14_Witness ==
    /\ pc = "parsed"
    /\ raw = " \ncurrent timetable, all day event, Tuesday, February 3, 2026"
    /\ result.kind = "None"

\* the hour, minute and meridiem written in a clock time 'h:mm P'
ClockFields(t) ==
    LET hm == SplitOn(SplitOn(t, " ")[1], ":")
    IN [h |-> DigitsValue(hm[1], 0), mi |-> DigitsValue(hm[2], 0),
        p |-> SplitOn(t, " ")[2]]

\* the hour of the day a 12-hour clock time stands for
HourOfDay(f) ==
    IF f.p = "AM" THEN (IF f.h = 12 THEN 0 ELSE f.h)
    ELSE (IF f.h = 12 THEN 12 ELSE f.h + 12)

\* the event the claim expects of a raw string of TimeRaws
ExpectedTimed(x) ==
    LET range == SplitOn(SplitOn(x, ", ")[2], " to ")
        a == ClockFields(range[1])
        b == ClockFields(range[2])
    IN Event("Standup",
             [year |-> 2026, month |-> 2, day |-> 3,
              hour |-> HourOfDay(a), minute |-> a.mi],
             [year |-> 2026, month |-> 2, day |-> 3,
              hour |-> HourOfDay(b), minute |-> b.mi],
             FALSE, x)

\* C15: a candidate with the time part 'h1:m1 P1 to h2:m2 P2', h1 and h2 in
\* 1..12, followed by a valid date, is accepted as a timed event on that
\* date with 12 AM as hour 0, 12 PM as 12, 1..11 AM unchanged, 1..11 PM plus
\* 12 and the minutes unchanged; the string of scenario 1 gives
\* 2026-02-03 10:00 to 11:00
C15_TwelveHourConversion ==
    pc = "parsed" =>
        /\ raw \in TimeRaws => result = ExpectedTimed(raw)
        /\ raw = Scenario1 =>
             result = Event("Team Sync",
                            [year |-> 2026, month |-> 2, day |-> 3,
                             hour |-> 10, minute |-> 0],
                            [year |-> 2026, month |-> 2, day |-> 3,
                             hour |-> 11, minute |-> 0],
                            FALSE, raw)

\* the range from 12:59 PM to 12:00 AM has been parsed: hours 12 and 0
C15_Witness ==
    /\ pc = "parsed"
    /\ raw = "Standup, 12:59 PM to 12:00 AM, Tuesday, February 3, 2026"
    /\ result.kind = "event"
    /\ result.start.hour = 12 /\ result.start.minute = 59
    /\ result.end.hour = 0 /\ result.end.minute = 0

\* the positions after the title of the segments that are date markers:
\* they begin with a weekday name and are no time range or all-day marker
DateMarkers(parts) ==
    { k \in 2..Len(parts) :
        IsWeekday(parts[k]) /\ ~IsTimeRange(parts[k]) /\ ~IsAllDay(parts[k]) }

\* the position of the first date marker, one past the end when none
DateIndex(parts) ==
    IF DateMarkers(parts) = {} THEN Len(parts) + 1
    ELSE CHOOSE k \in DateMarkers(parts) : \A n \in DateMarkers(parts) : k <= n

\* the positions of the time range markers before the date marker
RangesBeforeDate(parts) ==
    { k \in 2..(DateIndex(parts) - 1) : IsTimeRange(parts[k]) }

RECURSIVE JoinKept(_, _, _)
\* the segments of parts from k on whose position is not in drop, joined
\* with ", " after the first
JoinKept(parts, k, drop) ==
    IF k > Len(parts) THEN ""
    ELSE IF k \in drop THEN JoinKept(parts, k + 1, drop)
    ELSE ", " \o parts[k] \o JoinKept(parts, k + 1, drop)

\* raw with every time range marker before the date marker but the first
\* one taken out
FirstRangeOnly(x) ==
    LET parts == Parts(x)
        R == RangesBeforeDate(parts)
        first == CHOOSE k \in R : \A n \in R : k <= n
    IN parts[1] \o JoinKept(parts, 2, R \ {first})

\* two results of parse_event agree in everything but the raw text kept
SameOutcome(r, q) ==
    /\ r.kind = q.kind /\ r.exc = q.exc /\ r.title = q.title
    /\ r.start = q.start /\ r.end = q.end /\ r.all_day = q.all_day

\* C16: when several segments before the date marker are time range
\* markers, the outcome is the one of the first of them: the same as for
\* the string without the later ones
C16_FirstTimeRangeWins ==
    (pc = "parsed" /\ Cardinality(RangesBeforeDate(Parts(raw))) > 1) =>
        SameOutcome(result, parse_event(FirstRangeOnly(raw)))

\* the positions before position d, after the title, of the time range and
\* all-day markers
MarkersBefore(parts, d) ==
    { k \in 2..(d - 1) : IsTimeRange(parts[k]) \/ IsAllDay(parts[k]) }

\* the string of the segments of parts up to position e
UpTo(parts, e) == parts[1] \o JoinKept(parts, 2, (e + 1)..Len(parts))

\* C17: a string that has a date marker and no time range or all-day marker
\* before it is rejected, whatever follows the date marker; and the outcome
\* of a string is the outcome of the string cut after the three segments
\* the date marker takes
C17_DateMarkerTerminal ==
    pc = "parsed" =>
        LET parts == Parts(raw)
            d == DateIndex(parts)
        IN d <= Len(parts) =>
             /\ MarkersBefore(parts, d) = {} => result.kind = "None"
             /\ d + 2 < Len(parts)
                   => SameOutcome(result, parse_event(UpTo(parts, d + 2)))

\* a string whose only marker is an all-day marker after a valid date has
\* been rejected
C17_Witness ==
    /\ pc = "parsed"
    /\ raw = "Team Sync, Tuesday, February 3, 2026, all day event"
    /\ DateIndex(Parts(raw)) = 2
    /\ MarkersBefore(Parts(raw), 2) = {}
    /\ result.kind = "None"

\* the date written in the date marker of a raw string of the pool whose
\* month is a month name, <<>> for the other strings
DateWritten(x) ==
    IF Contains(x, "February 3, 2026") THEN <<<<2026, 2, 3>>>>
    ELSE IF Contains(x, "February 29, 2024") THEN <<<<2024, 2, 29>>>>
    ELSE <<>>

\* C19: start and end of every accepted event, timed or all-day, are on the
\* same calendar date, the one written in the date marker; the end is never
\* on a later day than the start
C19_SameCalendarDate ==
    Accepted =>
        /\ DateOf(result.start) = DateOf(result.end)
        /\ DateWritten(raw) # <<>> => DateOf(result.start) = DateWritten(raw)[1]

\* a time range that crosses midnight has been accepted with both ends on
\* the date of the marker
C19_Witness ==
    /\ Accepted
    /\ raw = "Team Sync, 11:00 PM to 1:00 AM, Friday, February 29, 2024"
    /\ ~result.all_day
    /\ DtLess(result.end, result.start)
    /\ DateOf(result.end) = <<2024, 2, 29>>

====
